---- MODULE Spec2Model ----
(***************************************************************************)
(* A model of the JSON-RPC 2.0 client engine of jsonrpc-client-core        *)
(* (src/core/src/lib.rs): the Client future, its ClientHandle, the         *)
(* outgoing queue, the pending-call table and the transport sink/source.   *)
(*                                                                         *)
(* One call of Client::poll is a sequence of steps, one per stage of       *)
(* handle_messages / handle_shutdown; `pc` is the stage the engine is at.  *)
(* Callers, the remote peer, the server handler and the owner of the       *)
(* engine run concurrently with it.                                        *)
(***************************************************************************)
EXTENDS Integers, Sequences, FiniteSets, TLC

\* ---------------------------------------------------------------- bounds
\* Messages (calls and notifications) submitted through client handles.
MaxMsgs == 2
\* Items the transport source delivers over the engine's life.
MaxSrc == 2
\* Live clones of the outgoing-queue sender (ClientHandle and its clones).
MaxHandles == 2
\* Times the sink answers not-ready (start_send or close) over a run.
MaxStall == 1
\* Incidents over a run: an error answered by the sink, the source or the
\* server handler, a frame that does not parse or carries a bad version,
\* parameters the serializer rejects, the server handler finishing.
MaxIncidents == 1

VARIABLES
    pc,                 \* stage of Client::poll the engine is at
    pending_payload,    \* Client.pending_payload: <<>> (None) or <<payload>>
    shutting_down,      \* Client.shutting_down
    fatal_error,        \* Client.fatal_error: "None" or an error kind
    table,              \* Client.pending_client_requests: id -> message index
    next_id,            \* Client.id_generator
    queueA,             \* client_handle_rx: messages queued by handles
    queueB,             \* server_response_rx: responses queued by the server
    transport_rx,       \* items the source has ready, oldest first
    sent,               \* payloads transport_tx.start_send accepted, in order
    result,             \* what Client::poll finally returned: "Pending", "Ok", or an error
    senders,            \* live clones of client_handle_tx
    msgs,               \* caller side of every submitted message, in submission order
    reqs,               \* inbound requests the server handler has not answered yet
    used,               \* what the environment has used of its budgets:
                        \* items delivered, not-ready answers, incidents
    h                   \* history: what happened, for stating the properties

vars == << pc, pending_payload, shutting_down, fatal_error, table, next_id,
           queueA, queueB, transport_rx, sent, result, senders, msgs, reqs,
           used, h >>

engine_vars == << pending_payload, shutting_down, fatal_error, table, next_id, sent >>

\* The subscription layer (src/pubsub/src/lib.rs) for one notification method.
VARIABLES
    notification_handlers,  \* Subscriber.notification_handlers[method]: 0 (no
                            \* entry) or the handler its control sender leads to
    route,                  \* the server's notification route for the method: 0 or
                            \* the handler whose data sender (msg_tx) it holds
    notification_handler,   \* the NotificationHandler tasks spawned so far
    subscription,           \* the subscribe calls and the Subscriptions they return
    unsubs,                 \* unsubscribe calls that reached the outgoing queue
    notes,                  \* notifications the engine has read, in wire order
    ph                      \* history of the subscription layer

pubsub_vars == << notification_handlers, route, notification_handler, subscription,
                  unsubs, notes, ph >>

all_vars == << vars, pubsub_vars >>

\* ------------------------------------------------------------ data types
Kinds == {"RpcCall", "Notification"}

\* What the message carries as parameters: serializable, or rejected by the
\* engine's serializer.  (Parameters that serialize_parameters rejects in the
\* handle resolve the future with SerializeError before anything is queued.)
ParamShapes == {"ok", "bad_at_engine"}

SinkAnswers == {"Ready", "NotReady", "Err"}

NoItem == [t |-> "None", id |-> 0, shape |-> "None", jsonrpc |-> "None"]

\* A response frame as parsed into Output: Success or Failure, with the id and
\* the jsonrpc version it carries.
Responses ==
    [t : {"Response"}, id : 1..MaxMsgs, shape : {"Success", "Failure"},
     jsonrpc : {"2.0", "1.0"}]

\* Everything the source can yield: a response, a server-originated request, a
\* string that parses as neither, a transport error, or the end of the stream.
SourceItems ==
    Responses \cup
    { [NoItem EXCEPT !.t = x] : x \in {"Request", "Garbage", "Err", "End"} }

Outcome(kind, by) == [kind |-> kind, by |-> by]

NoPayload == << >>

Payload(kind, m, id) == [kind |-> kind, m |-> m, id |-> id]

\* ------------------------------------------------------------- helpers
Remove(f, k) == [x \in DOMAIN f \ {k} |-> f[x]]

Insert(f, k, v) == [x \in DOMAIN f \cup {k} |-> IF x = k THEN v ELSE f[x]]

Range(s) == { s[i] : i \in DOMAIN s }

\* oneshot::Sender::send on the completion sender of message m: the value
\* reaches the future unless the caller dropped it; either way the sender is
\* consumed.
Deliver(ms, m, out) ==
    IF ms[m].rx = "live"
    THEN [ms EXCEPT ![m].outcome = Append(@, out), ![m].uses = @ + 1]
    ELSE [ms EXCEPT ![m].uses = @ + 1]

\* Dropping the completion senders of the messages in S without sending:
\* the receiver sees Canceled, which the handle maps to Shutdown.
DropSenders(ms, S) ==
    [m \in DOMAIN ms |->
        IF m \in S
        THEN [ms[m] EXCEPT !.uses = @ + 1,
                           !.outcome = IF ms[m].rx = "live"
                                       THEN Append(@, Outcome("Shutdown", NoItem))
                                       ELSE @]
        ELSE ms[m]]

\* A check that never finds the engine shutting down.
should_shut_down_never == FALSE

\* A check that looks at the flag only.
should_shut_down_flag_only == shutting_down

\* Client::should_shut_down.
should_shut_down == fatal_error # "None" \/ shutting_down

Resolved(m) == msgs[m].outcome # << >> \/ msgs[m].rx = "dropped"

AllResolved == \A m \in DOMAIN msgs : Resolved(m)

Terminated == pc \in {"done", "dropped"}

\* ------------------------------------------------- the engine's handlers
\* A send_payload that keeps the payload parked although the sink took it.
send_payload_keeps(json_string, ans, snt) ==
    IF fatal_error # "None"
    THEN [err |-> "TransportError", pending |-> NoPayload, sent |-> snt]
    ELSE CASE ans = "Err" ->
                [err |-> "TransportError", pending |-> NoPayload, sent |-> snt]
           [] ans = "NotReady" ->
                [err |-> "None", pending |-> << json_string >>, sent |-> snt]
           [] OTHER ->
                [err |-> "None", pending |-> << json_string >>,
                 sent |-> Append(snt, json_string)]

\* Client::send_payload: hand one serialized payload to the sink, whose
\* start_send answers `ans`.  The result is the error raised (or "None"), the
\* new pending_payload and the payloads the sink has accepted.
send_payload(json_string, ans, snt) ==
    IF fatal_error # "None"
    THEN [err |-> "TransportError", pending |-> NoPayload, sent |-> snt]
    ELSE CASE ans = "Ready" ->
                [err |-> "None", pending |-> NoPayload, sent |-> Append(snt, json_string)]
           [] ans = "NotReady" ->
                [err |-> "None", pending |-> << json_string >>, sent |-> snt]
           [] OTHER ->
                [err |-> "TransportError", pending |-> NoPayload, sent |-> snt]

\* Client::send_rpc_response: complete the call's sender; a failed send (the
\* future was dropped) is only logged.
send_rpc_response(ms, m, value) == Deliver(ms, m, value)

\* An add_new_call that forgets the completion sender.
add_new_call_forgets(tbl, id, m) == tbl

\* Client::add_new_call.
add_new_call(tbl, id, m) == Insert(tbl, id, m)

\* handle_response that leaves the entry in the table after completing it.
handle_response_keeps_entry(output) ==
    IF output.jsonrpc # "2.0"
    THEN [err |-> "InvalidVersion", table |-> table, msgs |-> msgs]
    ELSE LET id == output.id
             value == Outcome(IF output.shape = "Success" THEN "Ok" ELSE "JsonRpcError",
                              output)
         IN  IF id \in DOMAIN table
             THEN [err |-> "None", table |-> table,
                   msgs |-> send_rpc_response(msgs, table[id], value)]
             ELSE [err |-> "None", table |-> table, msgs |-> msgs]

\* handle_response that completes the oldest pending call, whatever the id of
\* the response.
handle_response_oldest(output) ==
    IF output.jsonrpc # "2.0"
    THEN [err |-> "InvalidVersion", table |-> table, msgs |-> msgs]
    ELSE LET value == Outcome(IF output.shape = "Success" THEN "Ok" ELSE "JsonRpcError",
                              output)
         IN  IF DOMAIN table # {}
             THEN LET id == CHOOSE x \in DOMAIN table : \A y \in DOMAIN table : x <= y
                  IN  [err |-> "None", table |-> Remove(table, id),
                       msgs |-> send_rpc_response(msgs, table[id], value)]
             ELSE [err |-> "None", table |-> table, msgs |-> msgs]

\* handle_response that takes a response it cannot deliver (unknown id, or the
\* future dropped) for an error.
handle_response_strict(output) ==
    IF output.jsonrpc # "2.0"
    THEN [err |-> "InvalidVersion", table |-> table, msgs |-> msgs]
    ELSE LET id == output.id
             value == Outcome(IF output.shape = "Success" THEN "Ok" ELSE "JsonRpcError",
                              output)
         IN  IF id \in DOMAIN table
             THEN [err |-> IF msgs[table[id]].rx = "dropped"
                           THEN "DeserializeError" ELSE "None",
                   table |-> Remove(table, id),
                   msgs |-> send_rpc_response(msgs, table[id], value)]
             ELSE [err |-> "DeserializeError", table |-> table, msgs |-> msgs]

\* handle_response that looks the id up before it checks the version.
handle_response_lookup_first(output) ==
    LET id == output.id
        value == Outcome(IF output.shape = "Success" THEN "Ok" ELSE "JsonRpcError",
                         output)
        err == IF output.jsonrpc # "2.0" THEN "InvalidVersion" ELSE "None"
    IN  IF id \in DOMAIN table
        THEN [err |-> err, table |-> Remove(table, id),
              msgs |-> send_rpc_response(msgs, table[id], value)]
        ELSE [err |-> err, table |-> table, msgs |-> msgs]

\* Client::handle_response: the version check, then the lookup by id.
handle_response(output) ==
    IF output.jsonrpc # "2.0"
    THEN [err |-> "InvalidVersion", table |-> table, msgs |-> msgs]
    ELSE LET id == output.id
             value == Outcome(IF output.shape = "Success" THEN "Ok" ELSE "JsonRpcError",
                              output)
         IN  IF id \in DOMAIN table
             THEN [err |-> "None", table |-> Remove(table, id),
                   msgs |-> send_rpc_response(msgs, table[id], value)]
             ELSE [err |-> "None", table |-> table, msgs |-> msgs]

\* A handle_transport_rx_payload that skips a frame it cannot parse.
handle_transport_rx_payload_lenient(payload) ==
    CASE payload.t = "Response" ->
            LET r == handle_response(payload)
            IN  [err |-> r.err, table |-> r.table, msgs |-> r.msgs, reqs |-> reqs]
      [] payload.t = "Request" ->
            [err |-> "None", table |-> table, msgs |-> msgs, reqs |-> reqs + 1]
      [] OTHER ->
            [err |-> "None", table |-> table, msgs |-> msgs, reqs |-> reqs]

\* Client::handle_transport_rx_payload: parse one frame (Response first, then
\* Request) and dispatch it.
handle_transport_rx_payload(payload) ==
    CASE payload.t = "Response" ->
            LET r == handle_response(payload)
            IN  [err |-> r.err, table |-> r.table, msgs |-> r.msgs, reqs |-> reqs]
      [] payload.t = "Request" ->
            [err |-> "None", table |-> table, msgs |-> msgs, reqs |-> reqs + 1]
      [] OTHER ->
            [err |-> "DeserializeError", table |-> table, msgs |-> msgs, reqs |-> reqs]

\* One iteration of the loop of Client::poll_transport_rx.  res is "NotReady"
\* (the loop returns Ok), "Continue" (one frame handled) or "Err".  The end of
\* the stream stays at the head of the source: a stream polled again after its
\* end reports the end again.
poll_transport_rx ==
    LET same == [res |-> "NotReady", err |-> "None", table |-> table, msgs |-> msgs,
                 reqs |-> reqs, rx |-> transport_rx]
    IN  IF transport_rx = << >> THEN same
        ELSE LET item == Head(transport_rx)
             IN  CASE item.t = "Err" ->
                        [same EXCEPT !.res = "Err", !.err = "TransportError",
                                     !.rx = Tail(transport_rx)]
                   [] item.t = "End" ->
                        [same EXCEPT !.res = "Err", !.err = "Shutdown"]
                   [] OTHER ->
                        LET r == handle_transport_rx_payload(item)
                        IN  [res |-> IF r.err = "None" THEN "Continue" ELSE "Err",
                             err |-> r.err, table |-> r.table, msgs |-> r.msgs,
                             reqs |-> r.reqs, rx |-> Tail(transport_rx)]

\* IdGenerator::next: the generator hands out its counter `n` and moves on to
\* this value, so every id differs from every id handed out before.
id_generator_next(n) == n + 1

\* An Err arm that completes the sender and then fails the engine as well.
serialize_failed_and_raise(r, ms, m) ==
    [r EXCEPT !.err = "SerializeError",
              !.msgs = Deliver(ms, m, Outcome("SerializeError", NoItem))]

\* The Err(e) arms of handle_client_payload for a call or a notification: the
\* completion sender gets the serialization error, nothing else happens.
serialize_failed(r, ms, m) ==
    [r EXCEPT !.msgs = Deliver(ms, m, Outcome("SerializeError", NoItem))]

\* Client::handle_client_payload for one dequeued message.  message.m is the
\* caller's message (0 for a server response), message.enc whether the
\* serializer accepts it, ans the sink's answer if start_send is reached.
handle_client_payload(message, ans) ==
    LET same == [err |-> "None", table |-> table, next_id |-> next_id, msgs |-> msgs,
                 pending |-> pending_payload, sent |-> sent, started |-> FALSE]
        m == message.m
    IN  CASE message.kind = "RpcCall" ->
              LET new_id == next_id
                  ms == [msgs EXCEPT ![m].id = new_id]
              IN  IF message.enc
                  THEN LET s == send_payload(Payload("RpcCall", m, new_id), ans, sent)
                       IN  [err |-> s.err, table |-> add_new_call(table, new_id, m),
                            next_id |-> id_generator_next(next_id), msgs |-> ms,
                            pending |-> s.pending, sent |-> s.sent, started |-> TRUE]
                  ELSE serialize_failed([same EXCEPT !.next_id = id_generator_next(next_id)],
                                        ms, m)
          [] message.kind = "Notification" ->
              IF message.enc
              THEN LET s == send_payload(Payload("Notification", m, 0), ans, sent)
                   IN  [same EXCEPT !.err = s.err,
                            !.msgs = Deliver(msgs, m, Outcome("Ok", NoItem)),
                            !.pending = s.pending, !.sent = s.sent, !.started = TRUE]
              ELSE serialize_failed(same, msgs, m)
          [] OTHER ->
              IF message.enc
              THEN LET s == send_payload(Payload("Response", 0, 0), ans, sent)
                   IN  [same EXCEPT !.err = s.err, !.pending = s.pending,
                                    !.sent = s.sent, !.started = TRUE]
              ELSE [same EXCEPT !.err = "SerializeError"]

\* A match that takes every error for a shutdown and records none.
poll_catch_all_shutdown(e) ==
    [shutting_down |-> TRUE, fatal_error |-> fatal_error]

\* The match of Client::poll on the error handle_messages returned: Shutdown
\* raises shutting_down, any other error goes to the fatal-error slot.
poll_catch(e) ==
    [shutting_down |-> IF e = "Shutdown" THEN TRUE ELSE shutting_down,
     fatal_error   |-> IF e = "Shutdown" THEN fatal_error ELSE e]

\* A loop that goes on whether or not a payload is parked.
may_dequeue_always == TRUE

\* A loop with the condition inverted.
may_dequeue_inverted == pending_payload # NoPayload

\* The loop condition of Client::poll_outgoing_messages.
may_dequeue == pending_payload = NoPayload

\* A merged stream that also ends while client handles are alive.
outgoing_payload_rx_poll_strong ==
    LET a == IF queueA # << >> THEN {"A"} ELSE {"End"}
        b == IF queueB # << >> THEN {"B"} ELSE {}
    IN  a \cup b

\* What the merged outgoing stream (client handles select_with_weak server
\* responses) can answer to one poll: "A" a client message, "B" a server
\* response, "End" the end of the stream, "NotReady".  The stream ends when the
\* client stream has ended: its queue is empty and every sender is gone.
outgoing_payload_rx_poll ==
    LET a == IF queueA # << >> THEN {"A"} ELSE IF senders = 0 THEN {"End"} ELSE {}
        b == IF queueB # << >> THEN {"B"} ELSE {}
    IN  IF a \cup b = {} THEN {"NotReady"} ELSE a \cup b

\* A close that is never taken for not ready.
close_not_ready_never(a) == FALSE

\* The Ok(Async::NotReady) arm of handle_shutdown's match on close().
close_not_ready(a) == a = "NotReady"

\* Client::handle_shutdown's last statement: the final result, taking the
\* fatal error out of its slot.
final_result == IF fatal_error # "None" THEN fatal_error ELSE "Ok"

\* ---------------------------------------------------------------- history
\* What poll's match on an error adds to the history: the first trigger of the
\* shutdown and the first error that is not Shutdown.
NoteErr(hh, e, cause) ==
    [hh EXCEPT !.trigger = IF @ # "none" THEN @
                           ELSE IF e = "Shutdown" THEN cause ELSE "fatal",
               !.recorded = IF e = "Shutdown" \/ @ # "None" THEN @ ELSE e]

\* A response with a bad version reached handle_response: remember the stage
\* and the calls that were awaiting a reply at that moment (first time only).
NoteVersion(hh, item, draining) ==
    IF item.t = "Response" /\ item.jsonrpc # "2.0" /\ hh.bv_stage = "none"
    THEN [hh EXCEPT !.bv_stage = IF draining THEN "draining" ELSE "running",
                    !.bv_inflight = Range(table), !.bv_id = item.id]
    ELSE hh

NoteItem(hh, draining) ==
    IF transport_rx = << >> THEN hh
    ELSE LET item == Head(transport_rx)
         IN  [NoteVersion(hh, item, draining) EXCEPT
                 !.io_error = @ \/ item.t = "Err"]

\* ------------------------------------------------- the subscription layer
\* Subscribe calls made on the Subscriber over a run.
MaxSubscriptions == 3
\* NotificationHandler tasks spawned over a run.
MaxNotificationHandlers == 2
\* Notifications the peer sends over a run.
MaxNotes == 3
\* buffer_size of every subscribe call: the capacity of a Subscription's data
\* channel.
BufferSize == 1

\* current_future of a NotificationHandler: none, the send of a result to a
\* subscriber's data channel, or the unsubscribe call.
NoFuture == [t |-> "none", to |-> 0, val |-> 0, polled |-> FALSE, answered |-> FALSE]

\* A handler slot before NotificationHandler::new, and the fields new gives it.
NoHandler ==
    [st |-> "none", subscribers |-> {}, data |-> << >>, control |-> << >>,
     current_future |-> NoFuture, should_shut_down |-> FALSE]

\* A subscribe call that has not been made.
NoSubscription ==
    [st |-> "none", chan |-> 0, rx |-> << >>, yielded |-> << >>,
     found |-> "none", spawned |-> FALSE]

\* Subscriber::new and Server::new: no handler, no route.
SubscriberInit ==
    /\ notification_handlers = 0
    /\ route = 0
    /\ notification_handler = [k \in 1..MaxNotificationHandlers |-> NoHandler]
    /\ subscription = [s \in 1..MaxSubscriptions |-> NoSubscription]
    /\ unsubs = << >>
    /\ notes = << >>
    /\ ph = [rerouted |-> FALSE, kept |-> {}, overtook |-> FALSE]

\* ------------------------------------------------------------------- Init
Init ==
    /\ SubscriberInit
    /\ pc = "idle"
    /\ pending_payload = NoPayload
    /\ shutting_down = FALSE
    /\ fatal_error = "None"
    /\ table = [x \in {} |-> 0]
    /\ next_id = 1
    /\ queueA = << >>
    /\ queueB = << >>
    /\ transport_rx = << >>
    /\ sent = << >>
    /\ result = "Pending"
    /\ senders = 1
    /\ msgs = << >>
    /\ reqs = 0
    /\ used = [src |-> 0, stalls |-> 0, incidents |-> 0]
    /\ h = [trigger |-> "none", recorded |-> "None", io_error |-> FALSE,
            bv_stage |-> "none", bv_inflight |-> {}, bv_id |-> 0, quiesced |-> FALSE,
            close |-> "no"]

\* ------------------------------------------------- callers and environment
\* The engine is between two calls of poll (or has finished).  The other
\* actors only touch the queues, the source and the futures, and each of their
\* steps commutes with the steps of a running poll that do not observe it, so a
\* step taken during a poll has the effect of the same step taken just before
\* or just after it: they are taken between polls.
Between == pc \in {"idle", "done", "dropped"}

\* The budgets of the environment: the sink answers not-ready at most MaxStall
\* times (a sink that exerts back-pressure becomes ready again), and at most
\* MaxIncidents incidents happen.
IncidentOk(incident) == incident => used.incidents < MaxIncidents

StallOk(stall) == stall => used.stalls < MaxStall

Use(stall, incident) ==
    [used EXCEPT !.stalls = IF stall THEN @ + 1 ELSE @,
                 !.incidents = IF incident THEN @ + 1 ELSE @]

\* A frame the source delivers is an incident unless it is a well-versioned
\* response, a request or the end of the stream.
Faulty(item) ==
    \/ item.t \in {"Garbage", "Err"}
    \/ item.t = "Response" /\ item.jsonrpc # "2.0"

\* ClientHandle::call_method / send_notification: queue the message, await the
\* completion.  A queue whose receiver (the engine) is gone resolves the
\* future at once, with Shutdown.
CallMethod(kind, params) ==
    /\ Between
    /\ senders > 0
    /\ Len(msgs) < MaxMsgs
    /\ IncidentOk(params # "ok")
    /\ used' = Use(FALSE, params # "ok")
    /\ LET m == Len(msgs) + 1
           fresh == [kind |-> kind, params |-> params, rx |-> "live",
                     outcome |-> << >>, uses |-> 0, id |-> 0]
       IN  IF pc = "dropped"
           THEN /\ msgs' = Append(msgs, [fresh EXCEPT
                              !.outcome = << Outcome("Shutdown", NoItem) >>])
                /\ UNCHANGED queueA
           ELSE /\ msgs' = Append(msgs, fresh)
                /\ queueA' = Append(queueA, m)
    /\ UNCHANGED << pc, engine_vars, queueB, transport_rx, result, senders, reqs, h >>
    /\ UNCHANGED pubsub_vars

\* The caller drops the future of a message that has no outcome yet.
DropFuture(m) ==
    /\ Between
    /\ m \in DOMAIN msgs
    /\ msgs[m].rx = "live"
    /\ msgs[m].outcome = << >>
    /\ msgs' = [msgs EXCEPT ![m].rx = "dropped"]
    /\ UNCHANGED << pc, engine_vars, queueA, queueB, transport_rx, result, senders,
                    reqs, used, h >>
    /\ UNCHANGED pubsub_vars

\* ClientHandle::clone (also the clones call_method and send_client_call make
\* while a send is in flight).
CloneHandle ==
    /\ Between
    /\ senders > 0
    /\ senders < MaxHandles
    /\ senders' = senders + 1
    /\ UNCHANGED << pc, engine_vars, queueA, queueB, transport_rx, result, msgs,
                    reqs, used, h >>
    /\ UNCHANGED pubsub_vars

\* A ClientHandle (or a clone of its sender) is dropped.
DropHandle ==
    /\ Between
    /\ senders > 0
    /\ senders' = senders - 1
    /\ UNCHANGED << pc, engine_vars, queueA, queueB, transport_rx, result, msgs,
                    reqs, used, h >>
    /\ UNCHANGED pubsub_vars

SourceEnded == transport_rx # << >> /\ transport_rx[Len(transport_rx)].t = "End"

\* The peer's next frame (or a transport fault, or the end) becomes ready at
\* the source.
SourceDeliver(item) ==
    /\ Between
    /\ used.src < MaxSrc
    /\ ~SourceEnded
    /\ ~Terminated
    /\ IncidentOk(Faulty(item))
    /\ transport_rx' = Append(transport_rx, item)
    /\ used' = [Use(FALSE, Faulty(item)) EXCEPT !.src = @ + 1]
    /\ UNCHANGED << pc, engine_vars, queueA, queueB, result, senders, msgs, reqs, h >>
    /\ UNCHANGED pubsub_vars

\* The server handler answers an inbound request: a Response is queued on the
\* server-response side of the outgoing queue.  (A Response value is one the
\* serializer accepts.)
ServerRespond ==
    /\ Between
    /\ reqs > 0
    /\ pc # "dropped"
    /\ reqs' = reqs - 1
    /\ queueB' = Append(queueB, [kind |-> "Response", m |-> 0, enc |-> TRUE])
    /\ UNCHANGED << pc, engine_vars, queueA, transport_rx, result, senders, msgs,
                    used, h >>
    /\ UNCHANGED pubsub_vars

\* ------------------------------------------------------- the engine's steps
\* The sink answers `ans` to a start_send or a close, within the budgets.
AnswerOk(ans) == StallOk(ans = "NotReady") /\ IncidentOk(ans = "Err")

Answered(ans) == Use(ans = "NotReady", ans = "Err")

\* handle_messages returned Err(e) to Client::poll, which records it and goes
\* on to handle_shutdown in the same call.
Caught(e, hh, cause) ==
    /\ pc' = "shutdown_rx"
    /\ shutting_down' = poll_catch(e).shutting_down
    /\ fatal_error' = poll_catch(e).fatal_error
    /\ h' = NoteErr(hh, e, cause)

\* The stage ended without an error: on to stage `next`.
Goto(next, hh) ==
    /\ pc' = next
    /\ UNCHANGED << shutting_down, fatal_error >>
    /\ h' = hh

\* Client::poll on an engine that is not shutting down: handle_messages starts
\* by sending the payload left over from the last turn, if any.
Poll(ans) ==
    /\ pc = "idle"
    /\ ~should_shut_down
    /\ LET hq == [h EXCEPT !.quiesced = @ \/ (senders = 0 /\ AllResolved)]
       IN  IF pending_payload = NoPayload
           THEN /\ ans = "Ready"
                /\ Goto("poll_server", hq)
                /\ UNCHANGED << pending_payload, sent, used >>
           ELSE LET s == send_payload(pending_payload[1], ans, sent)
                IN  /\ AnswerOk(ans)
                    /\ pending_payload' = s.pending
                    /\ sent' = s.sent
                    /\ used' = Answered(ans)
                    /\ IF s.err = "None"
                       THEN Goto("poll_server", hq)
                       ELSE Caught(s.err, [hq EXCEPT !.io_error = TRUE], "none")
    /\ UNCHANGED << table, next_id, queueA, queueB, transport_rx, result, senders,
                    msgs, reqs >>
    /\ UNCHANGED pubsub_vars

\* Client::poll on an engine that is shutting down: straight to handle_shutdown.
PollShutdown ==
    /\ pc = "idle"
    /\ should_shut_down
    /\ pc' = "shutdown_rx"
    /\ UNCHANGED << engine_vars, queueA, queueB, transport_rx, result, senders,
                    msgs, reqs, used, h >>
    /\ UNCHANGED pubsub_vars

\* Client::poll_server: drive the server handler, whose poll answers `a`.
PollServer(a) ==
    /\ pc = "poll_server"
    /\ IncidentOk(a # "NotReady")
    /\ used' = Use(FALSE, a # "NotReady")
    /\ IF shutting_down
       THEN /\ a = "NotReady"
            /\ Goto("poll_transport_rx", h)
       ELSE IF a = "Err"
       THEN Caught("ServerError", h, "none")
       ELSE /\ pc' = "poll_transport_rx"
            /\ shutting_down' = (a # "NotReady")
            /\ UNCHANGED fatal_error
            /\ h' = IF a # "NotReady" /\ h.trigger = "none"
                    THEN [h EXCEPT !.trigger = "server_done"] ELSE h
    /\ UNCHANGED << pending_payload, table, next_id, sent, queueA, queueB,
                    transport_rx, result, senders, msgs, reqs >>
    /\ UNCHANGED pubsub_vars

\* One iteration of poll_transport_rx as called by handle_messages: an error
\* (also the end of the source, as Shutdown) goes to Client::poll.
HandleMessagesRx ==
    /\ pc = "poll_transport_rx"
    /\ LET r == poll_transport_rx
           hh == NoteItem(h, FALSE)
       IN  /\ table' = r.table
           /\ msgs' = r.msgs
           /\ reqs' = r.reqs
           /\ transport_rx' = r.rx
           /\ CASE r.res = "NotReady" -> Goto("poll_outgoing_messages", hh)
                [] r.res = "Continue" -> Goto(pc, hh)
                [] OTHER -> Caught(r.err, hh, "source_end")
    /\ UNCHANGED << pending_payload, next_id, sent, queueA, queueB, result, senders,
                    used >>
    /\ UNCHANGED pubsub_vars

\* One iteration of poll_transport_rx as called by handle_shutdown: an error is
\* logged and ends the drain.
ShutdownRx ==
    /\ pc = "shutdown_rx"
    /\ LET r == poll_transport_rx
       IN  /\ table' = r.table
           /\ msgs' = r.msgs
           /\ reqs' = r.reqs
           /\ transport_rx' = r.rx
           /\ Goto(IF r.res = "Continue" THEN pc ELSE "shutdown_close",
                   NoteItem(h, TRUE))
    /\ UNCHANGED << pending_payload, next_id, sent, queueA, queueB, result, senders,
                    used >>
    /\ UNCHANGED pubsub_vars

\* poll_outgoing_messages leaves its loop: a payload is parked, or the merged
\* stream is not ready.
OutgoingDone ==
    /\ pc = "poll_outgoing_messages"
    /\ ~may_dequeue \/ "NotReady" \in outgoing_payload_rx_poll
    /\ Goto("poll_transport_tx", h)
    /\ UNCHANGED << pending_payload, table, next_id, sent, queueA, queueB,
                    transport_rx, result, senders, msgs, reqs, used >>
    /\ UNCHANGED pubsub_vars

\* poll_outgoing_messages finds the merged stream ended: Shutdown.
OutgoingEnded ==
    /\ pc = "poll_outgoing_messages"
    /\ may_dequeue
    /\ "End" \in outgoing_payload_rx_poll
    /\ Caught("Shutdown", h, "outgoing_end")
    /\ UNCHANGED << pending_payload, table, next_id, sent, queueA, queueB,
                    transport_rx, result, senders, msgs, reqs, used >>
    /\ UNCHANGED pubsub_vars

\* The effect of handle_client_payload(message) inside poll_outgoing_messages;
\* the sink answers `ans` if start_send is reached.
Outgoing(message, ans) ==
    LET r == handle_client_payload(message, ans)
    IN  /\ IF r.started
           THEN AnswerOk(ans) /\ used' = Answered(ans)
           ELSE /\ ans = "Ready"
                /\ UNCHANGED used
        /\ table' = r.table
        /\ next_id' = r.next_id
        /\ msgs' = r.msgs
        /\ pending_payload' = r.pending
        /\ sent' = r.sent
        /\ IF r.err = "None"
           THEN Goto(pc, h)
           ELSE Caught(r.err, [h EXCEPT !.io_error = @ \/ (r.started /\ ans = "Err")],
                       "none")

\* poll_outgoing_messages dequeues a message a client handle queued.
OutgoingClient(ans) ==
    /\ pc = "poll_outgoing_messages"
    /\ may_dequeue
    /\ "A" \in outgoing_payload_rx_poll
    /\ LET m == Head(queueA)
       IN  Outgoing([kind |-> msgs[m].kind, m |-> m,
                     enc |-> msgs[m].params # "bad_at_engine"], ans)
    /\ queueA' = Tail(queueA)
    /\ UNCHANGED << queueB, transport_rx, result, senders, reqs >>
    /\ UNCHANGED pubsub_vars

\* poll_outgoing_messages dequeues a response the server handler queued.
OutgoingServer(ans) ==
    /\ pc = "poll_outgoing_messages"
    /\ may_dequeue
    /\ "B" \in outgoing_payload_rx_poll
    /\ Outgoing(Head(queueB), ans)
    /\ queueB' = Tail(queueB)
    /\ UNCHANGED << queueA, transport_rx, result, senders, reqs >>
    /\ UNCHANGED pubsub_vars

\* Client::poll_transport_tx: flush the sink; handle_messages then returns Ok
\* and poll returns NotReady.
PollTransportTx(ok) ==
    /\ pc = "poll_transport_tx"
    /\ IF fatal_error = "None" /\ ~ok
       THEN /\ IncidentOk(TRUE)
            /\ used' = Use(FALSE, TRUE)
            /\ Caught("TransportError", [h EXCEPT !.io_error = TRUE], "none")
       ELSE /\ fatal_error # "None" => ok
            /\ Goto("idle", h)
            /\ UNCHANGED used
    /\ UNCHANGED << pending_payload, table, next_id, sent, queueA, queueB,
                    transport_rx, result, senders, msgs, reqs >>
    /\ UNCHANGED pubsub_vars

\* Client::handle_shutdown after the drain: close the sink, whose close answers
\* `a`; unless it is not ready, return the final result.
ShutdownClose(a) ==
    /\ pc = "shutdown_close"
    /\ AnswerOk(a)
    /\ used' = Answered(a)
    /\ IF close_not_ready(a)
       THEN /\ pc' = "idle"
            /\ h' = [h EXCEPT !.close = a]
            /\ UNCHANGED << fatal_error, result >>
       ELSE /\ pc' = "done"
            /\ result' = final_result
            /\ fatal_error' = "None"
            /\ h' = [h EXCEPT !.close = a, !.io_error = @ \/ a = "Err"]
    /\ UNCHANGED << pending_payload, shutting_down, table, next_id, sent, queueA,
                    queueB, transport_rx, senders, msgs, reqs >>
    /\ UNCHANGED pubsub_vars

\* The owner drops the finished engine: the outgoing queue's receiver and the
\* pending-call table go, and with them every completion sender they hold.
\* `table` keeps the value it had when it was dropped.
DropEngine ==
    /\ pc = "done"
    /\ pc' = "dropped"
    /\ msgs' = DropSenders(msgs, Range(queueA) \cup Range(table))
    /\ queueA' = << >>
    /\ queueB' = << >>
    /\ UNCHANGED << engine_vars, transport_rx, result, senders, reqs, used, h >>
    /\ UNCHANGED pubsub_vars

\* ------------------------------------------------------------ specification
EngineNext ==
    \/ \E ans \in SinkAnswers : Poll(ans)
    \/ PollShutdown
    \/ \E a \in {"NotReady", "Ready", "Err"} : PollServer(a)
    \/ HandleMessagesRx
    \/ ShutdownRx
    \/ OutgoingDone
    \/ OutgoingEnded
    \/ \E ans \in SinkAnswers : OutgoingClient(ans)
    \/ \E ans \in SinkAnswers : OutgoingServer(ans)
    \/ \E ok \in BOOLEAN : PollTransportTx(ok)
    \/ \E a \in SinkAnswers : ShutdownClose(a)

EnvNext ==
    \/ \E kind \in Kinds, params \in ParamShapes : CallMethod(kind, params)
    \/ \E m \in 1..MaxMsgs : DropFuture(m)
    \/ CloneHandle
    \/ DropHandle
    \/ \E item \in SourceItems : SourceDeliver(item)
    \/ ServerRespond
    \/ DropEngine

Next == EngineNext \/ EnvNext

Spec == Init /\ [][Next]_all_vars

\* The engine is polled as long as it has not finished, and each call of poll
\* runs to its end.
FairSpec == Spec /\ WF_vars(EngineNext)

\* ------------------------------------- the subscription layer: operations
\* JSON values handed to serialize_parameters.
JsonNull == [t |-> "null", items |-> << >>]

JsonArray(items) == [t |-> "array", items |-> items]

JsonScalar(v) == [t |-> "scalar", items |-> << v >>]

JsonObject == [t |-> "object", items |-> << >>]

\* serialize_parameters: null gives no parameters, an array positional
\* parameters, an object named ones, any other value a one-element array.
serialize_parameters(params) ==
    CASE params.t = "null" -> [t |-> "none", items |-> << >>]
      [] params.t = "array" -> [t |-> "positional", items |-> params.items]
      [] params.t = "object" -> [t |-> "named", items |-> << >>]
      [] OTHER -> [t |-> "positional", items |-> << params >>]

\* The parameters handle_removal passes to call_method: &[0u8; 0].
unsub_parameters == JsonArray(<< >>)

\* UnboundedSender::is_closed on the control sender of handler k: its
\* receiver, owned by the handler, is gone.
is_closed(k) == notification_handler[k].st = "gone"

\* The lookup of Subscriber::subscribe: the existing control sender, kept by
\* filter only when it is closed; 0 when spawn_notification_handler is called.
existing_chan ==
    IF notification_handlers # 0 /\ is_closed(notification_handlers)
    THEN notification_handlers
    ELSE 0

\* The handlers spawned so far, and the next free slot.
Spawned == { k \in 1..MaxNotificationHandlers : notification_handler[k].st # "none" }

\* ServerHandle::add for the method: the route now holds the data sender of
\* handler k (the closure of an earlier registration is dropped with its
\* sender).
server_handlers_add(k) == k

\* ServerHandle::remove for the method: no route is left.
server_handlers_remove == 0

\* NotificationHandler::handle_new_subscription.
handle_new_subscription(nh, id) == [nh EXCEPT !.subscribers = @ \cup {id}]

\* A handle_removal that raises should_shut_down and leaves the table alone.
handle_removal_keeps(nh, id) ==
    [nh EXCEPT !.current_future = [NoFuture EXCEPT !.t = "unsub", !.to = id],
               !.should_shut_down = TRUE]

\* NotificationHandler::handle_removal: the unsubscribe call becomes the
\* current future (`to` remembers whose removal launched it).
handle_removal(nh, id) ==
    [nh EXCEPT !.subscribers = @ \ {id},
               !.current_future = [NoFuture EXCEPT !.t = "unsub", !.to = id],
               !.should_shut_down = Cardinality(nh.subscribers \ {id}) < 1]

\* A handle_new_message that hands a message for an unknown id to a
\* subscriber it has.
handle_new_message_any(nh, id, message) ==
    IF nh.subscribers = {} THEN nh
    ELSE LET to == IF id \in nh.subscribers THEN id
                   ELSE CHOOSE x \in nh.subscribers : TRUE
         IN  [nh EXCEPT !.current_future =
                    [NoFuture EXCEPT !.t = "send", !.to = to, !.val = message]]

\* NotificationHandler::handle_new_message: a send to the subscriber with that
\* id becomes the current future; a message for an unknown id is discarded.
handle_new_message(nh, id, message) ==
    IF id \in nh.subscribers
    THEN [nh EXCEPT !.current_future =
              [NoFuture EXCEPT !.t = "send", !.to = id, !.val = message]]
    ELSE nh

\* The current future of handler k has been polled and is not ready: the
\* subscriber's data channel is over its capacity, or the unsubscribe call has
\* no reply yet.
FutureNotReady(k) ==
    LET f == notification_handler[k].current_future
    IN  /\ f.t # "none"
        /\ f.polled
        /\ IF f.t = "send"
           THEN /\ subscription[f.to].st = "live"
                /\ Len(subscription[f.to].rx) > BufferSize
           ELSE ~f.answered

\* What the merged stream of handler k (data channel select_with_weak control
\* channel) can answer to one poll.  The data channel has ended when it is
\* empty and the route no longer holds its sender.
messages_poll(k) ==
    LET nh == notification_handler[k]
        d == IF nh.data # << >> THEN {"data"}
             ELSE IF route # k THEN {"End"} ELSE {}
        c == IF nh.control # << >> THEN {"control"} ELSE {}
    IN  IF d \cup c = {} THEN {"NotReady"} ELSE d \cup c

\* ----------------------------------------- the subscription layer: actions
\* Subscriber::subscribe for the s-th call: look up or spawn the handler, then
\* issue the subscribe call.  add_ok: whether the route registration succeeds.
Subscribe(s, add_ok) ==
    /\ subscription[s].st = "none"
    /\ \A t \in 1..(s - 1) : subscription[t].st # "none"
    /\ LET found == IF notification_handlers = 0 THEN "none"
                    ELSE IF is_closed(notification_handlers) THEN "closed"
                    ELSE "open"
           k == Cardinality(Spawned) + 1
           sub == [subscription[s] EXCEPT !.found = found]
       IN  IF existing_chan # 0
           THEN /\ add_ok
                /\ subscription' = [subscription EXCEPT ![s] =
                       [sub EXCEPT !.st = "calling", !.chan = existing_chan]]
                /\ UNCHANGED << notification_handlers, route, notification_handler, ph >>
           ELSE /\ k <= MaxNotificationHandlers
                /\ IF add_ok
                   THEN /\ route' = server_handlers_add(k)
                        /\ notification_handler' =
                              [notification_handler EXCEPT ![k].st = "running"]
                        /\ notification_handlers' = k
                        /\ ph' = [ph EXCEPT !.rerouted = @ \/ route # 0]
                        /\ subscription' = [subscription EXCEPT ![s] =
                              [sub EXCEPT !.st = "calling", !.chan = k,
                                          !.spawned = TRUE]]
                   ELSE /\ subscription' = [subscription EXCEPT ![s] =
                              [sub EXCEPT !.st = "failed", !.spawned = TRUE]]
                        /\ UNCHANGED << notification_handlers, route,
                                        notification_handler, ph >>
    /\ UNCHANGED << unsubs, notes, vars >>

\* The engine resolves the subscribe call of s with the peer's reply, the
\* subscription id (here s itself).
SubscribeReply(s) ==
    /\ subscription[s].st = "calling"
    /\ subscription' = [subscription EXCEPT ![s].st = "replied"]
    /\ UNCHANGED << notification_handlers, route, notification_handler, unsubs,
                    notes, ph, vars >>

\* The continuation of the subscribe future: send NewSubscriber on the control
\* sender (a failure is logged) and return the Subscription.
SubscribeContinue(s) ==
    /\ subscription[s].st = "replied"
    /\ subscription' = [subscription EXCEPT ![s].st = "live"]
    /\ LET k == subscription[s].chan
       IN  notification_handler' =
              IF is_closed(k) THEN notification_handler
              ELSE [notification_handler EXCEPT ![k].control =
                       Append(@, [t |-> "NewSubscriber", id |-> s])]
    /\ UNCHANGED << notification_handlers, route, unsubs, notes, ph, vars >>

\* Subscription::poll yields the next item of the data channel.
SubscriptionPoll(s) ==
    /\ subscription[s].st = "live"
    /\ subscription[s].rx # << >>
    /\ subscription' = [subscription EXCEPT
           ![s].yielded = Append(@, Head(subscription[s].rx)),
           ![s].rx = Tail(@)]
    /\ UNCHANGED << notification_handlers, route, notification_handler, unsubs,
                    notes, ph, vars >>

\* Drop for Subscription: RemoveSubscriber goes to the handler (a failed send
\* is ignored) and the data receiver is freed.
DropSubscription(s) ==
    /\ subscription[s].st = "live"
    /\ subscription' = [subscription EXCEPT ![s].st = "dropped", ![s].rx = << >>]
    /\ LET k == subscription[s].chan
       IN  notification_handler' =
              IF is_closed(k) THEN notification_handler
              ELSE [notification_handler EXCEPT ![k].control =
                       Append(@, [t |-> "RemoveSubscriber", id |-> s])]
    /\ ph' = [ph EXCEPT !.kept = @ \cup
                 { y \in 1..MaxSubscriptions : y # s /\ subscription[y].st = "live" }]
    /\ UNCHANGED << notification_handlers, route, unsubs, notes, vars >>

\* The engine reads a notification of the method for subscription id s, sent
\* by the peer after its reply to the subscribe call; the route's closure
\* forwards it to the data channel of the handler it belongs to.
Notify(s) ==
    /\ subscription[s].st \in {"replied", "live", "dropped"}
    /\ Len(notes) < MaxNotes
    /\ notes' = Append(notes, s)
    /\ notification_handler' =
          IF route = 0 THEN notification_handler
          ELSE [notification_handler EXCEPT ![route].data =
                   Append(@, [subscription |-> s, result |-> Len(notes) + 1])]
    /\ UNCHANGED << notification_handlers, route, subscription, unsubs, ph, vars >>

\* The engine resolves the unsubscribe call handler k is waiting for.
UnsubReply(k) ==
    /\ notification_handler[k].st = "running"
    /\ notification_handler[k].current_future.t = "unsub"
    /\ notification_handler[k].current_future.polled
    /\ ~notification_handler[k].current_future.answered
    /\ notification_handler' =
          [notification_handler EXCEPT ![k].current_future.answered = TRUE]
    /\ UNCHANGED << notification_handlers, route, subscription, unsubs, notes, ph,
                    vars >>

\* NotificationHandler::ready_for_next_connection with a current future: poll
\* it.  The first poll of a send puts the result on the subscriber's data
\* channel, the first poll of the unsubscribe call puts the call on the
\* engine's outgoing queue; a future that is ready or failed is dropped.  A
\* future that was not ready is polled again by a later call of poll, which a
\* handler with should_shut_down set does not get: it has returned Ready.
HandlerResume(k) ==
    LET nh == notification_handler[k]
        f == nh.current_future
    IN  /\ nh.st = "running"
        /\ f.t # "none"
        /\ ~FutureNotReady(k)
        /\ f.polled => ~nh.should_shut_down
        /\ IF f.t = "send"
           THEN LET push == ~f.polled /\ subscription[f.to].st = "live"
                    rx == IF push THEN Append(subscription[f.to].rx, f.val)
                          ELSE subscription[f.to].rx
                    parked == subscription[f.to].st = "live" /\ Len(rx) > BufferSize
                IN  /\ subscription' = [subscription EXCEPT ![f.to].rx = rx]
                    /\ notification_handler' =
                          [notification_handler EXCEPT ![k].current_future =
                              IF parked THEN [f EXCEPT !.polled = TRUE] ELSE NoFuture]
                    /\ UNCHANGED unsubs
           ELSE /\ unsubs' =
                      IF f.polled THEN unsubs
                      ELSE Append(unsubs,
                               [params |-> serialize_parameters(unsub_parameters),
                                by |-> k, cause |-> f.to])
                /\ notification_handler' =
                      [notification_handler EXCEPT ![k].current_future =
                          IF f.polled THEN NoFuture ELSE [f EXCEPT !.polled = TRUE]]
                /\ UNCHANGED subscription
        /\ UNCHANGED << notification_handlers, route, notes, ph, vars >>

\* A handler that takes the next message whatever its current future does.
Ready_regardless(k) == notification_handler[k].st = "running"

\* Handler k may take the next message: it is running with no current future.
Ready(k) ==
    /\ notification_handler[k].st = "running"
    /\ notification_handler[k].current_future = NoFuture

\* NotificationHandler::poll takes a NewMessage from the data channel.
HandlerNewMessage(k) ==
    /\ Ready(k)
    /\ "data" \in messages_poll(k)
    /\ LET nh == notification_handler[k]
           msg == Head(nh.data)
       IN  notification_handler' = [notification_handler EXCEPT ![k] =
              handle_new_message([nh EXCEPT !.data = Tail(@)],
                                 msg.subscription, msg.result)]
    /\ ph' = [ph EXCEPT !.overtook = @ \/ notification_handler[k].control # << >>]
    /\ UNCHANGED << notification_handlers, route, subscription, unsubs, notes, vars >>

\* NotificationHandler::poll takes a NewSubscriber from the control channel.
HandlerNewSubscriber(k) ==
    /\ Ready(k)
    /\ "control" \in messages_poll(k)
    /\ Head(notification_handler[k].control).t = "NewSubscriber"
    /\ LET nh == notification_handler[k]
       IN  notification_handler' = [notification_handler EXCEPT ![k] =
              handle_new_subscription([nh EXCEPT !.control = Tail(@)],
                                      Head(nh.control).id)]
    /\ UNCHANGED << notification_handlers, route, subscription, unsubs, notes, ph,
                    vars >>

\* NotificationHandler::poll takes a RemoveSubscriber from the control channel.
HandlerRemoveSubscriber(k) ==
    /\ Ready(k)
    /\ "control" \in messages_poll(k)
    /\ Head(notification_handler[k].control).t = "RemoveSubscriber"
    /\ LET nh == notification_handler[k]
       IN  notification_handler' = [notification_handler EXCEPT ![k] =
              handle_removal([nh EXCEPT !.control = Tail(@)], Head(nh.control).id)]
    /\ UNCHANGED << notification_handlers, route, subscription, unsubs, notes, ph,
                    vars >>

\* The handler future is finished and dropped by the executor: its receivers,
\* its subscriber table and its current future go, and Drop deregisters the
\* route of the method.
Finish(k) ==
    /\ notification_handler' = [notification_handler EXCEPT ![k] =
          [NoHandler EXCEPT !.st = "gone"]]
    /\ route' = server_handlers_remove
    /\ UNCHANGED << notification_handlers, subscription, unsubs, notes, ph, vars >>

\* NotificationHandler::poll finds the merged stream ended: Ready.
HandlerStreamEnd(k) ==
    /\ Ready(k)
    /\ "End" \in messages_poll(k)
    /\ Finish(k)

\* NotificationHandler::poll leaves its loop (the current future was polled
\* and was not ready, or no message is) with should_shut_down set: Ready.
HandlerShutDown(k) ==
    /\ notification_handler[k].st = "running"
    /\ notification_handler[k].should_shut_down
    /\ \/ notification_handler[k].current_future.polled
       \/ Ready(k) /\ "NotReady" \in messages_poll(k)
    /\ Finish(k)

PubSubNext ==
    \/ \E s \in 1..MaxSubscriptions, add_ok \in BOOLEAN : Subscribe(s, add_ok)
    \/ \E s \in 1..MaxSubscriptions : SubscribeReply(s)
    \/ \E s \in 1..MaxSubscriptions : SubscribeContinue(s)
    \/ \E s \in 1..MaxSubscriptions : SubscriptionPoll(s)
    \/ \E s \in 1..MaxSubscriptions : DropSubscription(s)
    \/ \E s \in 1..MaxSubscriptions : Notify(s)
    \/ \E k \in 1..MaxNotificationHandlers : UnsubReply(k)
    \/ \E k \in 1..MaxNotificationHandlers : HandlerResume(k)
    \/ \E k \in 1..MaxNotificationHandlers : HandlerNewMessage(k)
    \/ \E k \in 1..MaxNotificationHandlers : HandlerNewSubscriber(k)
    \/ \E k \in 1..MaxNotificationHandlers : HandlerRemoveSubscriber(k)
    \/ \E k \in 1..MaxNotificationHandlers : HandlerStreamEnd(k)
    \/ \E k \in 1..MaxNotificationHandlers : HandlerShutDown(k)

\* The subscription layer on its own, over an engine that answers its calls
\* and forwards the peer's notifications.
PubSubSpec == Init /\ [][PubSubNext]_all_vars

\* ------------------------------------------------------------- properties
\* The payloads handed to the sink, accepted or parked, oldest first.
Wire == sent \o pending_payload

IsCall(m) == msgs[m].kind = "RpcCall"

\* C1: every call gets at most one outcome and its completion sender is used
\* at most once (by a reply, a serialization failure or the teardown); once
\* the engine has terminated and been dropped, every call whose future is still
\* held has exactly one outcome.
C1_ExactlyOneOutcome ==
    \A m \in DOMAIN msgs :
        IsCall(m) =>
            /\ Len(msgs[m].outcome) <= 1
            /\ msgs[m].uses <= 1
            /\ (pc = "dropped" /\ msgs[m].rx = "live") => Len(msgs[m].outcome) = 1

\* The engine was dropped with one call still in the pending table, which got
\* Shutdown, after another call had got its reply.
C1_Witness ==
    /\ pc = "dropped"
    /\ \E m1, m2 \in DOMAIN msgs :
          /\ IsCall(m1) /\ IsCall(m2)
          /\ m1 \in Range(table)
          /\ msgs[m1].outcome = << Outcome("Shutdown", NoItem) >>
          /\ Len(msgs[m2].outcome) = 1
          /\ msgs[m2].outcome[1].kind = "Ok"

\* C2: the calls on the wire carry pairwise distinct ids, each the id of its
\* call, and a call resolves with Ok (JsonRpcError) only from a well-versioned
\* Success (Failure) response whose id is the id assigned to that call.
C2_RoutedById ==
    /\ \A i, j \in DOMAIN Wire :
          (i # j /\ Wire[i].kind = "RpcCall" /\ Wire[j].kind = "RpcCall")
              => Wire[i].id # Wire[j].id
    /\ \A i \in DOMAIN Wire :
          Wire[i].kind = "RpcCall" => msgs[Wire[i].m].id = Wire[i].id
    /\ \A m \in DOMAIN msgs : \A k \in DOMAIN msgs[m].outcome :
          LET o == msgs[m].outcome[k]
          IN  (IsCall(m) /\ o.kind \in {"Ok", "JsonRpcError"}) =>
                  /\ o.by.t = "Response"
                  /\ o.by.jsonrpc = "2.0"
                  /\ o.by.id = msgs[m].id
                  /\ o.by.shape = IF o.kind = "Ok" THEN "Success" ELSE "Failure"

\* Two calls are on the wire with ids 1 and 2; the reply to the second came
\* first and resolved it, the reply to the first is the next frame.
C2_Witness ==
    /\ Len(msgs) = 2 /\ IsCall(1) /\ IsCall(2)
    /\ msgs[1].id = 1 /\ msgs[2].id = 2
    /\ Len(msgs[2].outcome) = 1
    /\ msgs[2].outcome[1].kind = "Ok" /\ msgs[2].outcome[1].by.id = 2
    /\ msgs[1].outcome = << >> /\ 1 \in DOMAIN table
    /\ transport_rx # << >>
    /\ Head(transport_rx).t = "Response" /\ Head(transport_rx).id = 1

\* The next frame of the source is a well-versioned response that cannot be
\* delivered: no entry for its id, or the future of its call was dropped.
Undeliverable ==
    /\ pc \in {"poll_transport_rx", "shutdown_rx"}
    /\ transport_rx # << >>
    /\ LET r == Head(transport_rx)
       IN  /\ r.t = "Response"
           /\ r.jsonrpc = "2.0"
           /\ r.id \in DOMAIN table => msgs[table[r.id]].rx = "dropped"

\* C3: handling an undeliverable response removes at most the entry of its own
\* id, completes no call, leaves shutting_down, fatal_error, the parked payload
\* and the sink alone, and the engine goes on with the next frame.
C3_DiscardedResponse ==
    [][ Undeliverable =>
            /\ table' = Remove(table, Head(transport_rx).id)
            /\ \A m \in DOMAIN msgs : msgs'[m].outcome = msgs[m].outcome
            /\ shutting_down' = shutting_down
            /\ fatal_error' = fatal_error
            /\ pending_payload' = pending_payload
            /\ sent' = sent
            /\ result' = result
            /\ pc' = pc ]_vars

\* The reply to a call whose future was dropped has been handled (its sender
\* was used, to no effect, and its entry is gone) while another call is still
\* pending and the engine is running.
C3_Witness ==
    /\ pc = "poll_transport_rx"
    /\ ~should_shut_down
    /\ \E m1, m2 \in DOMAIN msgs :
          /\ IsCall(m1) /\ msgs[m1].params = "ok"
          /\ msgs[m1].rx = "dropped" /\ msgs[m1].uses = 1
          /\ msgs[m1].id \notin DOMAIN table
          /\ m2 \in Range(table) /\ msgs[m2].outcome = << >>

\* C4: the client messages the sink has accepted are in submission order, and
\* when the sink has accepted a message, it has accepted before it every
\* message that was queued earlier and that the serializer did not reject.
C4_OrderPreserved ==
    \A j \in DOMAIN sent :
        sent[j].m # 0 =>
            \A a \in 1..(sent[j].m - 1) :
                \/ msgs[a].params # "ok"
                \/ \E i \in 1..(j - 1) : sent[i].m = a

\* The sink has accepted the first message and then the second, after having
\* answered not-ready once, so that a payload was parked between two turns.
C4_Witness ==
    /\ pc = "poll_outgoing_messages"
    /\ ~should_shut_down
    /\ used.stalls >= 1
    /\ Len(sent) >= 2
    /\ sent[1].m = 1 /\ sent[2].m = 2

\* Every client handle is gone and every submitted message has its outcome (or
\* its future was dropped).
Quiet == senders = 0 /\ AllResolved

\* C5 as stated, for an engine whose server handler does not fail: polled after
\* the last handle was dropped and every call had resolved, it ends with Ok(()).
C5_AsStated ==
    (h.quiesced /\ pc = "done" /\ h.recorded # "ServerError") => result = "Ok"

\* C5: once the last handle is dropped and every call has resolved, the engine
\* (polled on, with a sink that ends up accepting and closing) terminates; its
\* result is Ok(()) unless an error was recorded as fatal in a turn before the
\* shutdown began, and then it is that error.
C5_GracefulTermination ==
    /\ Quiet ~> Terminated
    /\ [](h.quiesced /\ Terminated =>
            result = IF h.recorded = "None" THEN "Ok" ELSE h.recorded)

\* The engine was polled in a quiet state, found the outgoing queue ended and
\* terminated with Ok(()).
C5_Witness ==
    /\ h.quiesced
    /\ h.trigger = "outgoing_end"
    /\ pc = "done"
    /\ result = "Ok"
    /\ Len(msgs) >= 1

\* C6 as stated: with the source not ended, no error and the server handler
\* not finished, a terminated engine has no client handle left and no call
\* still awaiting its reply.
C6_AsStated ==
    (/\ pc = "done"
     /\ ~SourceEnded
     /\ h.recorded = "None" /\ ~h.io_error
     /\ h.trigger # "server_done")
        => /\ senders = 0
           /\ \A m \in DOMAIN msgs : IsCall(m) => Resolved(m)

BadVersionNext ==
    /\ pc \in {"poll_transport_rx", "shutdown_rx"}
    /\ transport_rx # << >>
    /\ Head(transport_rx).t = "Response"
    /\ Head(transport_rx).jsonrpc # "2.0"

\* C8 as stated: once a response with a bad version was parsed, the result of
\* the engine is InvalidVersion and every call in flight at that moment
\* resolves with Shutdown.
C8_AsStated ==
    (pc = "dropped" /\ h.bv_stage # "none") =>
        /\ result = "InvalidVersion"
        /\ \A m \in h.bv_inflight :
              msgs[m].rx = "live" =>
                  msgs[m].outcome = << Outcome("Shutdown", NoItem) >>

\* C8: a response with a bad version completes no call and removes no entry,
\* also when its id is pending; parsed before the shutdown has begun it makes
\* InvalidVersion the result of the engine, and every call in flight at that
\* moment resolves with Shutdown, unless its own reply is read while the
\* shutdown drains the source.
C8_BadVersion ==
    /\ [][ BadVersionNext => (msgs' = msgs /\ table' = table) ]_vars
    /\ []( (Terminated /\ h.bv_stage = "running") => result = "InvalidVersion" )
    /\ []( (pc = "dropped" /\ h.bv_stage = "running") =>
              \A m \in h.bv_inflight :
                  msgs[m].rx = "live" =>
                      /\ Len(msgs[m].outcome) = 1
                      /\ \/ msgs[m].outcome[1].kind = "Shutdown"
                         \/ /\ msgs[m].outcome[1].kind \in {"Ok", "JsonRpcError"}
                            /\ msgs[m].outcome[1].by.id = msgs[m].id )

\* A response with a bad version and the id of a pending call was parsed while
\* the engine was running; the engine ended with InvalidVersion and that call
\* got Shutdown.
C8_Witness ==
    /\ pc = "dropped"
    /\ h.bv_stage = "running"
    /\ result = "InvalidVersion"
    /\ \E m \in h.bv_inflight :
          /\ msgs[m].id = h.bv_id
          /\ msgs[m].outcome = << Outcome("Shutdown", NoItem) >>

\* C9 as stated: an engine that saw the sink or the source return an error
\* does not end with Ok(()).
C9_AsStated == (pc = "done" /\ h.io_error) => result # "Ok"

\* The next message of the client queue is one the serializer rejects, and the
\* engine dequeues it.
RejectedNext ==
    /\ pc = "poll_outgoing_messages"
    /\ may_dequeue
    /\ queueA # << >>
    /\ msgs[Head(queueA)].params = "bad_at_engine"
    /\ queueA' = Tail(queueA)

\* C10: a message the serializer rejects has its sender completed with
\* SerializeError; nothing goes to the sink, no entry is added to the table,
\* shutting_down, fatal_error and pending_payload stay as they are, and the
\* engine goes on with the next outgoing message.
C10_SerializeErrorLocal ==
    [][ RejectedNext =>
            LET m == Head(queueA)
            IN  /\ msgs'[m].uses = msgs[m].uses + 1
                /\ msgs[m].rx = "live" =>
                      msgs'[m].outcome = << Outcome("SerializeError", NoItem) >>
                /\ \A x \in DOMAIN msgs : x # m => msgs'[x] = msgs[x]
                /\ sent' = sent
                /\ table' = table
                /\ shutting_down' = shutting_down
                /\ fatal_error' = fatal_error
                /\ pending_payload' = pending_payload
                /\ pc' = pc ]_vars

\* A call the serializer rejected has got SerializeError, and the engine is in
\* its outgoing loop, not shutting down, with another call in the table.
C10_Witness ==
    /\ pc = "poll_outgoing_messages"
    /\ ~should_shut_down
    /\ \E m1, m2 \in DOMAIN msgs :
          /\ IsCall(m1)
          /\ msgs[m1].outcome = << Outcome("SerializeError", NoItem) >>
          /\ m1 \notin Range(table)
          /\ m2 \in Range(table)

\* C11 as stated, counting a parked payload as written too: a notification
\* acknowledged with Ok(()) has had its payload handed to the sink's start_send
\* and not rejected.
C11_AsStated ==
    \A m \in DOMAIN msgs :
        (msgs[m].kind = "Notification" /\ msgs[m].outcome # << >>
            /\ msgs[m].outcome[1].kind = "Ok")
            => \E j \in DOMAIN Wire : Wire[j].m = m

\* The engine is inside handle_messages, past poll_server.
MidTurn == pc \in {"poll_transport_rx", "poll_outgoing_messages", "poll_transport_tx"}

\* A step that takes nothing from the outgoing queues and hands nothing to the
\* sink.
NoOutgoingStep ==
    /\ sent' = sent
    /\ pending_payload' = pending_payload
    /\ pc' # "dropped" =>
          /\ Len(queueA') >= Len(queueA)
          /\ Len(queueB') >= Len(queueB)

\* C12 as stated: once shutting_down is true it stays true and the engine
\* dequeues no outgoing message and starts no send, whatever raised it.
C12_AsStated == [][ shutting_down => (shutting_down' /\ NoOutgoingStep) ]_vars

\* C12: shutting_down never goes back to false; in every turn that starts with
\* it raised, and in the rest of a turn in which an error raised it, the
\* engine dequeues nothing and sends nothing.  Only when poll_server raised it
\* do the remaining stages of that same turn still run.
C12_StickyShutdown ==
    /\ [][ shutting_down => shutting_down' ]_vars
    /\ [][ (shutting_down /\ ~MidTurn) => NoOutgoingStep ]_vars
    /\ []( (shutting_down /\ MidTurn) => h.trigger = "server_done" )

\* The engine is closing the sink with shutting_down raised while a message
\* still waits in the outgoing queue.
C12_Witness ==
    /\ shutting_down
    /\ pc = "shutdown_close"
    /\ queueA # << >>

Registered(m) == IsCall(m) /\ msgs[m].id # 0 /\ msgs[m].params = "ok"

\* The calls whose payload has been handed to the sink, accepted or parked.
OnWire == { Wire[j].m : j \in { i \in DOMAIN Wire : Wire[i].kind = "RpcCall" } }

\* C14 as stated: the number of entries equals the number of calls put on the
\* wire whose reply has not been processed.
C14_AsStated ==
    pc # "dropped" =>
        Cardinality(DOMAIN table) = Cardinality({ m \in OnWire : msgs[m].uses = 0 })

\* C14: every entry of the table belongs to the one call that carries its id;
\* a call whose payload was handed to the sink (accepted or parked) is in the
\* table under its id or has had its sender completed; and the entries are
\* exactly the calls that add_new_call registered (their payload accepted,
\* parked, or rejected by the sink) and whose sender has not been used.
C14_TableInvariant ==
    pc # "dropped" =>
        /\ \A id \in DOMAIN table :
              /\ table[id] \in DOMAIN msgs
              /\ Registered(table[id])
              /\ msgs[table[id]].id = id
        /\ \A m \in OnWire :
              \/ msgs[m].id \in DOMAIN table /\ table[msgs[m].id] = m
              \/ msgs[m].uses = 1
        /\ Range(table) = { m \in DOMAIN msgs : Registered(m) /\ msgs[m].uses = 0 }
        /\ Cardinality(DOMAIN table) = Cardinality(Range(table))

\* Two calls are in the table, one with its payload accepted and one parked,
\* and an earlier call has had its reply.
C14_Witness ==
    /\ pc # "dropped"
    /\ Cardinality(DOMAIN table) >= 1
    /\ pending_payload # NoPayload
    /\ pending_payload[1].kind = "RpcCall"
    /\ \E m \in OnWire : msgs[m].uses = 1 /\ msgs[m].id \notin DOMAIN table

\* ----------------------------------- properties of the subscription layer
Subs == 1..MaxSubscriptions

Handlers == 1..MaxNotificationHandlers

\* The handlers that are running.
Live == { k \in Handlers : notification_handler[k].st = "running" }

\* C15 as stated: at most one handler is live at a time; a subscribe call that
\* finds an open control sender reuses it without spawning, and one that finds
\* no entry or a closed sender spawns a handler.
C15_AsStated ==
    /\ Cardinality(Live) <= 1
    /\ \A s \in Subs :
          subscription[s].st # "none" =>
              /\ subscription[s].found = "open" => ~subscription[s].spawned
              /\ subscription[s].found # "open" => subscription[s].spawned

\* The unsubscribe call for the dropped subscription s has reached the
\* outgoing queue.
Issued(s) == \E i \in DOMAIN unsubs : unsubs[i].cause = s

\* The removal of s is still on its way: RemoveSubscriber(s) waits in the
\* control channel of its running handler, or the unsubscribe call it launched
\* has not been polled yet.
OnTheWay(s) ==
    LET k == subscription[s].chan
        nh == notification_handler[k]
    IN  /\ k \in Live
        /\ \/ \E i \in DOMAIN nh.control :
                 nh.control[i] = [t |-> "RemoveSubscriber", id |-> s]
           \/ /\ nh.current_future.t = "unsub"
              /\ nh.current_future.to = s
              /\ ~nh.current_future.polled

\* C16 as stated, for runs in which no route registration replaced another:
\* every unsubscribe call comes from the drop of a Subscription, no drop
\* causes two, and every dropped Subscription has its unsubscribe call issued
\* or on its way.
C16_AsStated ==
    ~ph.rerouted =>
        /\ \A i \in DOMAIN unsubs : subscription[unsubs[i].cause].st = "dropped"
        /\ \A i, j \in DOMAIN unsubs : unsubs[i].cause = unsubs[j].cause => i = j
        /\ \A s \in Subs : subscription[s].st = "dropped" => (Issued(s) \/ OnTheWay(s))

\* Subscription y is registered with its handler, or about to be.
Served(y) ==
    LET k == subscription[y].chan
        nh == notification_handler[k]
    IN  /\ k \in Live
        /\ \/ y \in nh.subscribers
           \/ \E i \in DOMAIN nh.control :
                 nh.control[i] = [t |-> "NewSubscriber", id |-> y]

\* C17 as stated, for runs in which no route registration replaced another: a
\* Subscription that was live when another one was dropped is served by a
\* running handler for as long as it is live itself.
C17_AsStated ==
    ~ph.rerouted =>
        \A y \in ph.kept : subscription[y].st = "live" => Served(y)

\* What Subscription s has been given: the items it yielded, then those still
\* in its data channel.
Delivered(s) == subscription[s].yielded \o subscription[s].rx

\* Handler k takes from its data channel a message for an id it does not know.
UnknownNext(k) ==
    /\ Ready(k)
    /\ notification_handler[k].data # << >>
    /\ Head(notification_handler[k].data).subscription
          \notin notification_handler[k].subscribers
    /\ notification_handler'[k].data = Tail(notification_handler[k].data)

\* C18: what a Subscription is given are results of notifications that carry
\* its own id, in the order the engine read them and none twice; a
\* notification for an id the handler does not know is discarded: nothing is
\* delivered and no send is launched.
C18_FanOut ==
    /\ []( \A s \in Subs :
              LET d == Delivered(s)
              IN  \A i \in DOMAIN d :
                      /\ d[i] \in DOMAIN notes
                      /\ notes[d[i]] = s
                      /\ \A j \in 1..(i - 1) : d[j] < d[i] )
    /\ [][ \A k \in Handlers :
              UnknownNext(k) =>
                  /\ subscription' = subscription
                  /\ notification_handler'[k].current_future = NoFuture ]_all_vars

\* A Subscription has yielded two results in wire order while a notification
\* for another id was read in between or around them.
C18_Witness ==
    \E s \in Subs :
        /\ Len(subscription[s].yielded) = 2
        /\ \E v \in DOMAIN notes : notes[v] # s

\* Notification v is still on its way to a subscriber: in the data channel of a
\* running handler, or in a send that has not been polled.
InFlight(v) ==
    \E k \in Live :
        LET nh == notification_handler[k]
        IN  \/ \E i \in DOMAIN nh.data : nh.data[i].result = v
            \/ /\ nh.current_future.t = "send"
               /\ nh.current_future.val = v
               /\ ~nh.current_future.polled

\* C19 as stated, for runs in which no route registration replaced another
\* and the merged stream never gave a data message ahead of a waiting control
\* message: a notification the engine read after the subscribe reply is given
\* to the live Subscription for its id, or is still on its way to it.
C19_AsStated ==
    (~ph.rerouted /\ ~ph.overtook) =>
        \A v \in DOMAIN notes :
            subscription[notes[v]].st = "live" =>
                \/ \E i \in DOMAIN Delivered(notes[v]) : Delivered(notes[v])[i] = v
                \/ InFlight(v)

\* C20 as stated: the unsubscribe call issued for the drop of subscription S
\* carries the positional parameters [S].
C20_AsStated ==
    \A i \in DOMAIN unsubs :
        unsubs[i].params
            = serialize_parameters(JsonArray(<< JsonScalar(unsubs[i].cause) >>))

\* ------------------------------------------- the engine: further properties
\* C21 as stated, for an engine whose server handler does not fail: whenever
\* the fatal-error slot holds an error, the shutting_down flag is true.
C21_AsStated ==
    (fatal_error # "None" /\ fatal_error # "ServerError") => shutting_down

\* The engine is between two polls or inside handle_shutdown.
InShutdownPath == pc \in {"idle", "shutdown_rx", "shutdown_close"}

\* C21: an error in the fatal-error slot makes should_shut_down true (the flag
\* itself may stay false) and keeps the engine out of handle_messages; the
\* slot is assigned at most once, with the first error recorded, and is
\* emptied only by the step that returns its error as the final result.
C21_FatalErrorSlot ==
    /\ []( fatal_error # "None" => (should_shut_down /\ InShutdownPath) )
    /\ [][ (fatal_error' # fatal_error /\ fatal_error' # "None")
              => (fatal_error = "None" /\ h.recorded = "None"
                    /\ h'.recorded = fatal_error') ]_vars
    /\ [][ (fatal_error # "None" /\ fatal_error' # fatal_error)
              => (fatal_error' = "None" /\ pc' = "done" /\ result' = fatal_error) ]_vars

\* The slot holds an error, the flag is false, and the engine is pending after
\* a close that was not ready.
C21_Witness ==
    /\ fatal_error # "None"
    /\ ~shutting_down
    /\ pc = "idle"
    /\ h.close = "NotReady"

\* C22: at most one payload is parked; a payload is parked only by a
\* start_send that answered not-ready, in a step that found nothing parked or
\* retried the same payload; a start_send that took a payload leaves nothing
\* parked; and while a payload is parked nothing is dequeued from the outgoing
\* queues, no id is assigned and no entry is added to the table.
C22_ParkedPayload ==
    /\ []( Len(pending_payload) <= 1 )
    /\ [][ (pending_payload' # NoPayload /\ pending_payload' # pending_payload)
              => /\ pending_payload = NoPayload
                 /\ used'.stalls = used.stalls + 1
                 /\ sent' = sent ]_vars
    /\ [][ sent' # sent => pending_payload' = NoPayload ]_vars
    /\ [][ (pending_payload # NoPayload /\ pc' # "dropped")
              => /\ Len(queueA') >= Len(queueA)
                 /\ Len(queueB') >= Len(queueB)
                 /\ next_id' = next_id
                 /\ DOMAIN table' \subseteq DOMAIN table ]_vars

\* A call's payload is parked, the outgoing loop has been left, and another
\* message waits in the client queue.
C22_Witness ==
    /\ pending_payload # NoPayload
    /\ pending_payload[1].kind = "RpcCall"
    /\ pc = "poll_transport_tx"
    /\ queueA # << >>
    /\ ~should_shut_down

GarbageNext ==
    /\ pc = "poll_transport_rx"
    /\ transport_rx # << >>
    /\ Head(transport_rx).t = "Garbage"

\* C27 as stated: once DeserializeError is in the fatal-error slot, a call
\* resolves with Shutdown only.
C27_AsStated ==
    [][ h.recorded = "DeserializeError" =>
            \A m \in DOMAIN msgs :
                msgs'[m].outcome # msgs[m].outcome =>
                    msgs'[m].outcome = << Outcome("Shutdown", NoItem) >> ]_vars

\* C27: a frame that does not parse, read by handle_messages, puts
\* DeserializeError in the fatal-error slot and ends the turn without
\* completing a call; from then on nothing is dequeued and nothing is sent,
\* the engine's result is Err(DeserializeError), and a call resolves with
\* Shutdown, or with its own reply when the drain of the shutdown reads it.
C27_UnparseableFatal ==
    /\ [][ GarbageNext
              => /\ fatal_error' = "DeserializeError"
                 /\ h'.recorded = "DeserializeError"
                 /\ pc' = "shutdown_rx"
                 /\ msgs' = msgs
                 /\ table' = table ]_vars
    /\ [][ h.recorded = "DeserializeError" => NoOutgoingStep ]_vars
    /\ []( (h.recorded = "DeserializeError" /\ Terminated)
              => result = "DeserializeError" )
    /\ [][ h.recorded = "DeserializeError" =>
              \A m \in DOMAIN msgs :
                  msgs'[m].outcome # msgs[m].outcome =>
                      \/ msgs'[m].outcome = << Outcome("Shutdown", NoItem) >>
                      \/ /\ pc = "shutdown_rx"
                         /\ Len(msgs'[m].outcome) = 1
                         /\ msgs'[m].outcome[1].kind \in {"Ok", "JsonRpcError"}
                         /\ msgs'[m].outcome[1].by.id = msgs[m].id ]_vars

\* The engine ended with Err(DeserializeError) and was dropped; the call that
\* was pending got Shutdown.
C27_Witness ==
    /\ pc = "dropped"
    /\ h.recorded = "DeserializeError"
    /\ result = "DeserializeError"
    /\ \E id \in DOMAIN table :
          msgs[table[id]].outcome = << Outcome("Shutdown", NoItem) >>

\* C28 as stated, for a run without an error of the sink or the source: when
\* the engine has closed the sink, no serialized payload is left parked, and
\* every call with an entry in the table has been accepted by the sink.
C28_AsStated ==
    (pc = "done" /\ h.close = "Ready" /\ ~h.io_error) =>
        /\ pending_payload = NoPayload
        /\ \A id \in DOMAIN table :
              \E j \in DOMAIN sent : sent[j].kind = "RpcCall" /\ sent[j].id = id

\* ---------------------------- the subscription layer: further properties
\* C24: while a handler has a current future it takes nothing from its data or
\* control channel and changes neither its subscriber table nor
\* should_shut_down, and the future is only polled or dropped, never replaced;
\* once the unsubscribe call for a subscription is issued, nothing more is
\* delivered to that subscription and no send to it is in flight.
C24_OneFutureAtATime ==
    /\ [][ \A k \in Handlers :
              LET nh == notification_handler[k]
                  nx == notification_handler'[k]
              IN  (nh.st = "running" /\ nh.current_future # NoFuture
                      /\ nx.st = "running") =>
                      /\ Len(nx.data) >= Len(nh.data)
                      /\ Len(nx.control) >= Len(nh.control)
                      /\ nx.subscribers = nh.subscribers
                      /\ nx.should_shut_down = nh.should_shut_down
                      /\ \/ nx.current_future = nh.current_future
                         \/ nx.current_future = NoFuture
                         \/ nx.current_future = [nh.current_future EXCEPT !.polled = TRUE]
                         \/ nx.current_future = [nh.current_future EXCEPT !.answered = TRUE]
          ]_all_vars
    /\ [][ \A s \in Subs : Issued(s) => subscription'[s] = subscription[s] ]_all_vars
    /\ []( \A s \in Subs : Issued(s) =>
              \A k \in Live :
                  ~ (/\ notification_handler[k].current_future.t = "send"
                     /\ notification_handler[k].current_future.to = s) )

\* A delivery is parked on a subscriber's full data channel while the next
\* notification waits in the handler's data channel.
C24_Witness ==
    \E k \in Handlers :
        /\ FutureNotReady(k)
        /\ notification_handler[k].current_future.t = "send"
        /\ notification_handler[k].data # << >>

C26_AsStated == (route # 0) <=> (Live # {})

====
